---------------------------- MODULE Spec2Model ----------------------------
(***************************************************************************)
(* A model of e2048.py: the 2048 board codec, the move engine, the         *)
(* legality test and the enumeration of the successor boards.              *)
(*                                                                         *)
(* A grid is a sequence of 4 rows of 4 np.int8 cells (tile exponents),     *)
(* indexed from 1.  A packed board (np.int64) is kept with its width: a    *)
(* sequence of 4 limbs of 16 bits, least significant limb first, on which  *)
(* &, |, << and >> act as they do on a two's complement 64-bit integer.    *)
(***************************************************************************)
EXTENDS Integers, Sequences, FiniteSets, Bags, TLC

VARIABLES
    arr,     \* the grid a call is made on (a 4x4 np.int8 array)
    _value,  \* the packed board a call is made on (an np.int64)
    ret,     \* the last call and what it returned
    simulator  \* the GameStrategy object, when there is one

vars == <<arr, _value, ret, simulator>>

(***************************************************************************)
(* Bounds of the model.                                                    *)
(***************************************************************************)
\* The grids drawn as inputs hold the exponents 0..MaxLow and the top
\* exponent 15.
MaxLow == 2

(***************************************************************************)
(* Directions (class Directions).                                          *)
(***************************************************************************)
left == 0
right == 1
up == 2
down == 3

DIRECTIONS == <<left, right, up, down>>

\* LINE_POSITIONS = range(16), as the set of the cell positions 0..15
LINE_POSITIONS == 0 .. 15

(***************************************************************************)
(* Fixed-width integers.                                                   *)
(***************************************************************************)
\* A value stored into an np.int8 cell wraps to -128..127.
Int8(x) == ((x + 128) % 256) - 128

RECURSIVE BitOr(_, _)
\* a | b on naturals
BitOr(a, b) ==
    IF a = 0 THEN b
    ELSE IF b = 0 THEN a
    ELSE (IF a % 2 = 1 \/ b % 2 = 1 THEN 1 ELSE 0) + 2 * BitOr(a \div 2, b \div 2)

\* np.int64(0)
initial_value == <<0, 0, 0, 0>>

\* remainder & 0xf
AndF(k) == k[1] % 16

\* remainder >>= 4 on an np.int64: an arithmetic shift, the sign bit refills
ShiftRight4(k) ==
    << (k[1] \div 16) + (k[2] % 16) * 4096,
       (k[2] \div 16) + (k[3] % 16) * 4096,
       (k[3] \div 16) + (k[4] % 16) * 4096,
       (k[4] \div 16) + (IF k[4] >= 32768 THEN 15 * 4096 ELSE 0) >>

\* remainder <<= 4 on an np.int64: the top nibble is shifted out
ShiftLeft4(k) ==
    << (k[1] * 16) % 65536,
       ((k[2] * 16) % 65536) + (k[1] \div 4096),
       ((k[3] * 16) % 65536) + (k[2] \div 4096),
       ((k[4] * 16) % 65536) + (k[3] \div 4096) >>

\* remainder |= value, value an np.int8 promoted (sign-extended) to np.int64
OrInt8(k, v) ==
    IF v >= 0 THEN <<BitOr(k[1], v), k[2], k[3], k[4]>>
    ELSE <<BitOr(k[1], 65536 + v), 65535, 65535, 65535>>

(***************************************************************************)
(* Board codec.                                                            *)
(***************************************************************************)
\* arr.flat: the 16 cells in row-major order
Flat(a) == a[1] \o a[2] \o a[3] \o a[4]

\* cur_data.reshape(4,4)
Reshape(f) == <<SubSeq(f, 1, 4), SubSeq(f, 5, 8), SubSeq(f, 9, 12), SubSeq(f, 13, 16)>>

RECURSIVE BuildArrayLoop(_, _)
\* the loop of build_array from position `current` on: the cells it writes
BuildArrayLoop(remainder, current) ==
    IF current \notin LINE_POSITIONS THEN <<>>
    ELSE <<Int8(AndF(remainder))>> \o BuildArrayLoop(ShiftRight4(remainder), current + 1)

build_array(value) == Reshape(BuildArrayLoop(value, 0))

\* a sequence given by its items, each computed once
List(f) == f \o <<>>

\* mutant: the cells are packed without being reversed
Reversed_Forward(seq) == seq

\* seq[::-1]
Reversed(seq) == List([n \in 1 .. Len(seq) |-> seq[Len(seq) + 1 - n]])

RECURSIVE BuildValueLoop(_, _, _)
\* the loop of build_value over sorted_arr[:15], sorted_arr = arr.flat[::-1]
BuildValueLoop(remainder, sorted_arr, n) ==
    IF n > 15 THEN remainder
    ELSE BuildValueLoop(ShiftLeft4(OrInt8(remainder, sorted_arr[n])), sorted_arr, n + 1)

build_value(a) ==
    LET sorted_arr == Reversed(Flat(a))
    IN  OrInt8(BuildValueLoop(initial_value, sorted_arr, 1), sorted_arr[16])

initial_array == build_array(initial_value)

(***************************************************************************)
(* Printing (board_print).  A text is the sequence of its characters.      *)
(***************************************************************************)
RECURSIVE TwoTo(_)
\* 2 ** y
TwoTo(y) == IF y = 0 THEN 1 ELSE 2 * TwoTo(y - 1)

RECURSIVE Str(_)
\* str(n) of a number n >= 0
Str(n) ==
    LET digit == <<"0", "1", "2", "3", "4", "5", "6", "7", "8", "9">>[(n % 10) + 1]
    IN  IF n < 10 THEN <<digit>> ELSE Str(n \div 10) \o <<digit>>

\* ' ' * k, which is empty when k is negative
Spaces(k) == [i \in 1 .. k |-> " "]

\* mutant: the label is padded on its right
Justified_Left(real_value) == real_value \o Spaces(4 - Len(real_value))

\* (' ' * (4 - len(real_value))) + real_value
Justified(real_value) == Spaces(4 - Len(real_value)) \o real_value

\* what the inner loop adds to output_value for the cell y
CellText(y, numbers, blank) ==
    LET real_value == IF numbers THEN Str(y)
                      ELSE IF y = 0 THEN blank
                      ELSE Str(TwoTo(y))
    IN  Justified(real_value) \o <<" ">>

\* what the outer loop adds to output_value for one row
RowText(row, before, numbers, blank) ==
    before \o CellText(row[1], numbers, blank) \o CellText(row[2], numbers, blank)
           \o CellText(row[3], numbers, blank) \o CellText(row[4], numbers, blank)
           \o <<"\n">>

\* the output_value that board_print returns
board_print(value, before, numbers, blank) ==
    LET a == build_array(value)
    IN  RowText(a[1], before, numbers, blank) \o RowText(a[2], before, numbers, blank)
        \o RowText(a[3], before, numbers, blank) \o RowText(a[4], before, numbers, blank)

(***************************************************************************)
(* Row transform and move engine.                                          *)
(***************************************************************************)
\* row[counter:].any()
AnyFrom(row, counter) == \E j \in counter .. 4 : row[j] # 0

\* row[counter:3] = row[counter + 1:4] ; row[3] = 0   (counter counted from 1)
ShiftOut(row, counter) ==
    << IF 1 < counter THEN row[1] ELSE row[2],
       IF 2 < counter THEN row[2] ELSE row[3],
       IF 3 < counter THEN row[3] ELSE row[4],
       0 >>

\* mutant: `if` for `while`, an empty cell is closed by one shift only
SlideLoop_Once(row, counter) ==
    IF row[counter] = 0
    THEN << IF 1 < counter THEN row[1] ELSE row[2],
            IF 2 < counter THEN row[2] ELSE row[3],
            IF 3 < counter THEN row[3] ELSE row[4],
            0 >>
    ELSE row

RECURSIVE SlideLoop(_, _)
\* while row[counter] == 0: shift the tail of the row one cell to the left
SlideLoop(row, counter) ==
    IF row[counter] = 0 THEN SlideLoop(ShiftOut(row, counter), counter) ELSE row

RECURSIVE CompactLoop(_, _)
\* while counter < 3 and row[counter:].any(): ... counter += 1
CompactLoop(row, counter) ==
    IF counter < 4 /\ AnyFrom(row, counter)
    THEN CompactLoop(SlideLoop(row, counter), counter + 1)
    ELSE row

\* mutant: the tail is not shifted over the merged pair
MergeAt_NoShift(row, counter) == [row EXCEPT ![counter] = Int8(@ + 1)]

\* mutant: a line is compacted but never merged
MergeLoop_Never(row, counter, merged) == [row |-> row, merged |-> merged]

\* the body of the merge: row[counter] += 1, the tail shifted over the pair
MergeAt(row, counter) ==
    ShiftOut([row EXCEPT ![counter] = Int8(@ + 1)], counter + 1)

RECURSIVE MergeLoop(_, _, _)
\* while counter < 3: merge row[counter] with its equal right neighbour.
\* `merged` records the positions at which a merge was made (history only).
MergeLoop(row, counter, merged) ==
    IF counter >= 4 THEN [row |-> row, merged |-> merged]
    ELSE IF row[counter] # 0 /\ row[counter] = row[counter + 1]
         THEN MergeLoop(MergeAt(row, counter), counter + 1, merged \cup {counter})
         ELSE MergeLoop(row, counter + 1, merged)

\* the body of `for row in new_arr` in _only_move_left
MoveRow(row) ==
    IF AnyFrom(row, 1) THEN MergeLoop(CompactLoop(row, 1), 1, {})
    ELSE [row |-> row, merged |-> {}]

_only_move_left(a) ==
    <<MoveRow(a[1]).row, MoveRow(a[2]).row, MoveRow(a[3]).row, MoveRow(a[4]).row>>

\* history: 1 in the cells of _only_move_left(a) that a merge produced
MergedMarks(merged) ==
    << IF 1 \in merged THEN 1 ELSE 0, IF 2 \in merged THEN 1 ELSE 0,
       IF 3 \in merged THEN 1 ELSE 0, IF 4 \in merged THEN 1 ELSE 0 >>

MergedLeft(a) ==
    << MergedMarks(MoveRow(a[1]).merged), MergedMarks(MoveRow(a[2]).merged),
       MergedMarks(MoveRow(a[3]).merged), MergedMarks(MoveRow(a[4]).merged) >>

\* mutant: the quarter turns are made clockwise
rot90_Clockwise(m, k) ==
    CASE k % 4 = 0 -> m
      [] k % 4 = 3 -> << <<m[1][4], m[2][4], m[3][4], m[4][4]>>,
                         <<m[1][3], m[2][3], m[3][3], m[4][3]>>,
                         <<m[1][2], m[2][2], m[3][2], m[4][2]>>,
                         <<m[1][1], m[2][1], m[3][1], m[4][1]>> >>
      [] k % 4 = 2 -> << <<m[4][4], m[4][3], m[4][2], m[4][1]>>,
                         <<m[3][4], m[3][3], m[3][2], m[3][1]>>,
                         <<m[2][4], m[2][3], m[2][2], m[2][1]>>,
                         <<m[1][4], m[1][3], m[1][2], m[1][1]>> >>
      [] k % 4 = 1 -> << <<m[4][1], m[3][1], m[2][1], m[1][1]>>,
                         <<m[4][2], m[3][2], m[2][2], m[1][2]>>,
                         <<m[4][3], m[3][3], m[2][3], m[1][3]>>,
                         <<m[4][4], m[3][4], m[2][4], m[1][4]>> >>

\* np.rot90(m, k): k quarter turns counterclockwise
rot90(m, k) ==
    CASE k % 4 = 0 -> m
      [] k % 4 = 1 -> << <<m[1][4], m[2][4], m[3][4], m[4][4]>>,
                         <<m[1][3], m[2][3], m[3][3], m[4][3]>>,
                         <<m[1][2], m[2][2], m[3][2], m[4][2]>>,
                         <<m[1][1], m[2][1], m[3][1], m[4][1]>> >>
      [] k % 4 = 2 -> << <<m[4][4], m[4][3], m[4][2], m[4][1]>>,
                         <<m[3][4], m[3][3], m[3][2], m[3][1]>>,
                         <<m[2][4], m[2][3], m[2][2], m[2][1]>>,
                         <<m[1][4], m[1][3], m[1][2], m[1][1]>> >>
      [] k % 4 = 3 -> << <<m[4][1], m[3][1], m[2][1], m[1][1]>>,
                         <<m[4][2], m[3][2], m[2][2], m[1][2]>>,
                         <<m[4][3], m[3][3], m[2][3], m[1][3]>>,
                         <<m[4][4], m[3][4], m[2][4], m[1][4]>> >>

_only_move(a, direction) ==
    CASE direction = left  -> _only_move_left(a)
      [] direction = right -> rot90(_only_move_left(rot90(a, 2)), 2)
      [] direction = up    -> rot90(_only_move_left(rot90(a, 1)), 3)
      [] direction = down  -> rot90(_only_move_left(rot90(a, 3)), 1)

\* history: 1 in the cells of _only_move(a, direction) that a merge produced
MergedCells(a, direction) ==
    CASE direction = left  -> MergedLeft(a)
      [] direction = right -> rot90(MergedLeft(rot90(a, 2)), 2)
      [] direction = up    -> rot90(MergedLeft(rot90(a, 1)), 3)
      [] direction = down  -> rot90(MergedLeft(rot90(a, 3)), 1)

(***************************************************************************)
(* Legality.                                                               *)
(***************************************************************************)
\* mutant: a line whose last cell is taken counts as movable
LineMovesToFront_WhenTaken(line) == line[4] # 0

\* the test of one line a, b, c, d in the left and up branches of can_move_to
LineMovesToFront(line) ==
    LET a == line[1] b == line[2] c == line[3] d == line[4]
    IN  IF a = 0 /\ b = 0 /\ c = 0 /\ d = 0 THEN FALSE
        ELSE IF d # 0 THEN d = c \/ a = 0 \/ b = 0 \/ c = 0
        ELSE IF c # 0 THEN c = b \/ a = 0 \/ b = 0
        ELSE IF b # 0 THEN b = a \/ a = 0
        ELSE FALSE

\* mutant: a line whose last cell is taken counts as movable
LineMovesToBack_WhenTaken(line) == line[4] # 0

\* the test of one line a, b, c, d in the right and down branches
LineMovesToBack(line) ==
    LET a == line[1] b == line[2] c == line[3] d == line[4]
    IN  IF a = 0 /\ b = 0 /\ c = 0 /\ d = 0 THEN FALSE
        ELSE IF a # 0 THEN a = b \/ b = 0 \/ c = 0 \/ d = 0
        ELSE IF b # 0 THEN b = c \/ c = 0 \/ d = 0
        ELSE IF c # 0 THEN c = d \/ d = 0
        ELSE FALSE

\* arr[:,i], i counted from 1
Column(a, i) == <<a[1][i], a[2][i], a[3][i], a[4][i]>>

can_move_to(a, direction) ==
    CASE direction = left  -> \E i \in 1 .. 4 : LineMovesToFront(a[i])
      [] direction = right -> \E i \in 1 .. 4 : LineMovesToBack(a[i])
      [] direction = up    -> \E i \in 1 .. 4 : LineMovesToFront(Column(a, i))
      [] direction = down  -> \E i \in 1 .. 4 : LineMovesToBack(Column(a, i))

\* the list of the directions d in the order of DIRECTIONS with can_move_to(a, d)
potential_directions(a) ==
    SelectSeq(DIRECTIONS, LAMBDA d : can_move_to(a, d))

\* mutant: a move is always thought possible
can_move_Always(a) == TRUE

can_move(a) ==
    \/ can_move_to(a, left)
    \/ can_move_to(a, right)
    \/ can_move_to(a, up)
    \/ can_move_to(a, down)

(***************************************************************************)
(* Gap filling and enumeration of the successor boards.                    *)
(***************************************************************************)
\* mutant: every cell counts as a hole
HolePositions_All(a) ==
    List([p \in 1 .. 16 |-> <<((p - 1) \div 4) + 1, ((p - 1) % 4) + 1>>])

\* zip(*np.where(a == 0)): the empty cells <<row, column>> in row-major order
HolePositions(a) ==
    SelectSeq(List([p \in 1 .. 16 |-> <<((p - 1) \div 4) + 1, ((p - 1) % 4) + 1>>]),
              LAMBDA pos : a[pos[1]][pos[2]] = 0)

\* mutant: the weight is shared among the fills, two for each hole
Chances_PerFill(new_value, holes) ==
    [num |-> IF new_value = 1 THEN 9 ELSE 1, den |-> 10 * 2 * holes]

\* 1.0 / holes * 0.9 and 1.0 / holes * 0.1, kept exact as num / den
Chances(new_value, holes) ==
    [num |-> IF new_value = 1 THEN 9 ELSE 1, den |-> 10 * holes]

\* the dict of _potential_fills, as the sequence of its items
\* [hashable_position, new_value, chances]: the holes in row-major order,
\* for each hole the value 1 and then the value 2
_potential_fills(a) ==
    LET hole_positions == HolePositions(a)
    IN  List([n \in 1 .. 2 * Len(hole_positions) |->
                [hashable_position |-> hole_positions[(n + 1) \div 2],
                 new_value         |-> 2 - (n % 2),
                 chances           |-> Chances(2 - (n % 2), Len(hole_positions))]])

\* mutant: the new value is not written
FilledArr_Nothing(moved_arr, hole, new_value) == moved_arr

\* new_arr = np.copy(moved_arr) ; new_arr[position] = new_value
FilledArr(moved_arr, hole, new_value) ==
    [moved_arr EXCEPT ![hole[1]][hole[2]] = Int8(new_value)]

\* for (position, new_value), chances in fills.items():
\*     direction_moves[cur_value] = chances
\* The dict is kept as the set of its <<key, chances>> items; an assignment
\* replaces what an earlier item stored under the same key.
FillLoop(moved_arr, fills) ==
    LET cur_values ==
            List([n \in 1 .. Len(fills) |->
                    build_value(FilledArr(moved_arr, fills[n].hashable_position,
                                          fills[n].new_value))])
    IN  {<<cur_values[n], fills[n].chances>> :
            n \in {m \in 1 .. Len(fills) :
                      \A l \in (m + 1) .. Len(fills) : cur_values[l] # cur_values[m]}}

\* what potential_states_to returns: None (a bare `return`), or a dict kept
\* as the set of its <<key, chances>> items
None == [is_none |-> TRUE, items |-> {}]

Dict(items) == [is_none |-> FALSE, items |-> items]

\* `if direction_moves:` is true of a dict that is not empty
Truthy(direction_moves) == ~direction_moves.is_none /\ direction_moves.items # {}

potential_states_to(a, direction) ==
    LET moved_arr == _only_move(a, direction)
    IN  IF a = moved_arr THEN None
        ELSE Dict(FillLoop(moved_arr, _potential_fills(moved_arr)))

\* for direction in Directions.DIRECTIONS:
\*     if direction_moves: all_potential_moves[direction] = direction_moves
\* a dict direction -> direction_moves, as the set of its items
potential_states(a) ==
    LET all_moves == List([n \in 1 .. Len(DIRECTIONS) |->
                             <<DIRECTIONS[n], potential_states_to(a, DIRECTIONS[n])>>])
    IN  {all_moves[n] : n \in {m \in 1 .. Len(DIRECTIONS) : Truthy(all_moves[m][2])}}

(***************************************************************************)
(* Arrays in memory.  A numpy array is a view of a buffer: np.copy makes a *)
(* new buffer, np.rot90 and the iteration over rows make views of the same *)
(* buffer, and an assignment to a view writes into its buffer.  mem is the *)
(* sequence of the buffers, each a 4x4 grid; an array is [base, k], the    *)
(* buffer mem[base] seen after k quarter turns.                            *)
(***************************************************************************)
\* the grid that the array a shows
View(mem, a) == rot90(mem[a.base], a.k)

\* mutant: np.copy hands back the array it was given
np_copy_Alias(mem, a) == [mem |-> mem, a |-> a]

\* np.copy(a): a new buffer holding what a shows
np_copy(mem, a) ==
    [mem |-> Append(mem, View(mem, a)), a |-> [base |-> Len(mem) + 1, k |-> 0]]

\* np.rot90(a, k): a view of the buffer of a
np_rot90(a, k) == [base |-> a.base, k |-> (a.k + k) % 4]

\* mutant: the assignment is lost
Store_Dropped(mem, a, g) == mem

\* assignments through the array a after which it shows the grid g
Store(mem, a, g) == [mem EXCEPT ![a.base] = rot90(g, 4 - a.k)]

\* _only_move_left: new_arr = np.copy(arr), the rows of new_arr are
\* rewritten in place, new_arr is returned
OnlyMoveLeftIn(mem, a) ==
    LET new_arr == np_copy(mem, a)
    IN  [mem |-> Store(new_arr.mem, new_arr.a,
                       _only_move_left(View(new_arr.mem, new_arr.a))),
         a   |-> new_arr.a]

\* _only_move: the rotations before and after _only_move_left are views
OnlyMoveIn(mem, a, direction) ==
    LET before == CASE direction = left  -> 0
                    [] direction = right -> 2
                    [] direction = up    -> 1
                    [] direction = down  -> 3
        after  == CASE direction = left  -> 0
                    [] direction = right -> 2
                    [] direction = up    -> 3
                    [] direction = down  -> 1
        moved  == OnlyMoveLeftIn(mem, np_rot90(a, before))
    IN  [mem |-> moved.mem, a |-> np_rot90(moved.a, after)]

\* _fill_random, with the index n that np.random.choice draws: raises when
\* positions_fills is empty, otherwise arr[new_position] = new_value
FillRandomIn(mem, a, n) ==
    LET positions_fills == _potential_fills(View(mem, a))
    IN  IF positions_fills = <<>>
        THEN [mem |-> mem, raised |-> TRUE]
        ELSE [mem |-> Store(mem, a,
                            FilledArr(View(mem, a),
                                      positions_fills[n].hashable_position,
                                      positions_fills[n].new_value)),
              raised |-> FALSE]

\* the indices that np.random.choice can draw for _fill_random on the grid g:
\* every fill has a positive probability
Draws(g) ==
    IF _potential_fills(g) = <<>> THEN {1} ELSE 1 .. Len(_potential_fills(g))

\* _fill_random as a function of the grid and of the index n drawn: whether
\* it raises, and the grid that arr holds afterwards
_fill_random(a, n) ==
    IF _potential_fills(a) = <<>>
    THEN [raised |-> TRUE, arr |-> a]
    ELSE [raised |-> FALSE,
          arr |-> FilledArr(a, _potential_fills(a)[n].hashable_position,
                            _potential_fills(a)[n].new_value)]

\* move_random as a function of the grid, the direction and the index drawn:
\* whether _fill_random raises, and the grid that is returned
move_random(a, direction, n) == _fill_random(_only_move(a, direction), n)

\* move_random: moved_arr = _only_move(arr, direction), _fill_random(moved_arr)
MoveRandomIn(mem, a, direction, n) ==
    LET moved_arr == OnlyMoveIn(mem, a, direction)
        filled    == FillRandomIn(moved_arr.mem, moved_arr.a, n)
    IN  [mem |-> filled.mem, a |-> moved_arr.a, raised |-> filled.raised]

RECURSIVE FillLoopIn(_, _, _, _)
\* the loop of potential_states_to from the n-th fill on:
\* new_arr = np.copy(moved_arr) ; new_arr[position] = new_value
FillLoopIn(mem, moved_arr, fills, n) ==
    IF n > Len(fills) THEN mem
    ELSE LET new_arr == np_copy(mem, moved_arr)
         IN  FillLoopIn(Store(new_arr.mem, new_arr.a,
                              FilledArr(View(new_arr.mem, new_arr.a),
                                        fills[n].hashable_position,
                                        fills[n].new_value)),
                        moved_arr, fills, n + 1)

\* the memory after potential_states_to(a, direction)
PotentialStatesToIn(mem, a, direction) ==
    LET moved_arr == OnlyMoveIn(mem, a, direction)
    IN  IF View(mem, a) = View(moved_arr.mem, moved_arr.a) THEN moved_arr.mem
        ELSE FillLoopIn(moved_arr.mem, moved_arr.a,
                        _potential_fills(View(moved_arr.mem, moved_arr.a)), 1)

\* the memory after potential_states(a): the four directions in turn
PotentialStatesIn(mem, a) ==
    PotentialStatesToIn(
        PotentialStatesToIn(
            PotentialStatesToIn(
                PotentialStatesToIn(mem, a, left), a, right), a, up), a, down)

(***************************************************************************)
(* Inputs.                                                                 *)
(***************************************************************************)
\* the exponents of the cells that are drawn
Exps == (0 .. MaxLow) \cup {15}

\* _build_from_2048 applied to the grids of test_2048.py (test_only_move,
\* test_potential_states twice), and the grid of test_can_move taken as it is
TestBoards ==
    { << <<0, 0, 0, 0>>, <<1, 1, 2, 3>>, <<0, 0, 1, 1>>, <<1, 1, 1, 1>> >>,
      << <<1, 2, 3, 4>>, <<4, 3, 2, 1>>, <<5, 6, 3, 1>>, <<6, 5, 1, 1>> >>,
      << <<1, 2, 3, 4>>, <<4, 3, 2, 1>>, <<5, 6, 3, 4>>, <<6, 5, 1, 1>> >>,
      << <<2, 4, 6, 8>>, <<8, 6, 4, 2>>, <<2, 4, 6, 8>>, <<8, 6, 4, 2>> >> }

\* a test grid, as it is or with one cell overwritten by a drawn exponent
EditedBoards ==
    TestBoards \cup
    { [b EXCEPT ![i][j] = e] : b \in TestBoards, i \in 1 .. 4, j \in 1 .. 4, e \in Exps }

\* the empty grid with the line l as its i-th row
RowBoard(i, l) ==
    LET z == <<0, 0, 0, 0>>
    IN  << IF i = 1 THEN l ELSE z, IF i = 2 THEN l ELSE z,
           IF i = 3 THEN l ELSE z, IF i = 4 THEN l ELSE z >>

\* one row or one column of drawn exponents on the empty grid
LineBoards ==
    LET Lines == Exps \X Exps \X Exps \X Exps
    IN  { RowBoard(i, l) : i \in 1 .. 4, l \in Lines }
        \cup { rot90(RowBoard(i, l), 1) : i \in 1 .. 4, l \in Lines }

\* full lines: alternating, with an equal pair in the middle, and with a
\* 32768 tile
FullLines ==
    { <<1, 2, 1, 2>>, <<2, 1, 2, 1>>, <<1, 2, 2, 1>>,
      <<2, 3, 3, 2>>, <<3, 4, 3, 4>>, <<15, 1, 15, 1>> }

\* the fully populated grids whose rows are full lines
FullBoards ==
    { <<r1, r2, r3, r4>> : r1 \in FullLines, r2 \in FullLines,
                           r3 \in FullLines, r4 \in FullLines }

Boards == EditedBoards \cup LineBoards \cup FullBoards

\* the 16-bit limbs of the packed boards that are drawn: those of the values
\* of test_build (0x5, 0xf0, 0x010101, 0xdeadbeefdeadbeef) and 0xffff
Limbs == {0, 5, 240, 257, 48879, 57005, 65535}

Values == Limbs \X Limbs \X Limbs \X Limbs

(***************************************************************************)
(* The calls.                                                              *)
(***************************************************************************)
NoCall == [op |-> "none"]

\* no GameStrategy object has been constructed
NoSimulator == [pc |-> "none"]

Init ==
    /\ ret = NoCall
    /\ simulator = NoSimulator
    /\ \/ arr \in Boards /\ _value = initial_value
       \/ arr = initial_array /\ _value \in Values

BuildArray ==
    /\ ret = NoCall
    /\ ret' = [op |-> "build_array", arr |-> build_array(_value)]
    /\ UNCHANGED <<arr, _value, simulator>>

\* build_value on the array that build_array returned
BuildArrayThenValue ==
    /\ ret.op = "build_array"
    /\ ret' = [op |-> "build_array;build_value", value |-> build_value(ret.arr)]
    /\ UNCHANGED <<arr, _value, simulator>>

BuildValue ==
    /\ ret = NoCall
    /\ ret' = [op |-> "build_value", value |-> build_value(arr)]
    /\ UNCHANGED <<arr, _value, simulator>>

\* build_array on the value that build_value returned
BuildValueThenArray ==
    /\ ret.op = "build_value"
    /\ ret' = [op |-> "build_value;build_array", arr |-> build_array(ret.value)]
    /\ UNCHANGED <<arr, _value, simulator>>

OnlyMove(direction) ==
    /\ ret = NoCall
    /\ ret' = [op |-> "_only_move", direction |-> direction,
               moved_arr |-> _only_move(arr, direction),
               merged |-> MergedCells(arr, direction)]
    /\ UNCHANGED <<arr, _value, simulator>>

\* _only_move in the same direction on the array that _only_move returned
OnlyMoveAgain ==
    /\ ret.op = "_only_move"
    /\ ret' = [op |-> "_only_move;_only_move", direction |-> ret.direction,
               moved_arr |-> ret.moved_arr,
               moved_again |-> _only_move(ret.moved_arr, ret.direction)]
    /\ UNCHANGED <<arr, _value, simulator>>

\* Board._only_move: Board.fromarray(new_arr), that is Board(build_value(new_arr))
\* with its fields _value and arr = build_array(value)
BoardOnlyMove ==
    /\ ret.op = "_only_move"
    /\ ret' = [op |-> "Board._only_move", direction |-> ret.direction,
               moved_arr |-> ret.moved_arr,
               value |-> build_value(ret.moved_arr),
               arr |-> build_array(build_value(ret.moved_arr))]
    /\ UNCHANGED <<arr, _value, simulator>>

CanMoveTo(direction) ==
    /\ ret = NoCall
    /\ ret' = [op |-> "can_move_to", direction |-> direction,
               result |-> can_move_to(arr, direction)]
    /\ UNCHANGED <<arr, _value, simulator>>

PotentialDirections ==
    /\ ret = NoCall
    /\ ret' = [op |-> "potential_directions", directions |-> potential_directions(arr)]
    /\ UNCHANGED <<arr, _value, simulator>>

CanMove ==
    /\ ret = NoCall
    /\ ret' = [op |-> "can_move", result |-> can_move(arr)]
    /\ UNCHANGED <<arr, _value, simulator>>

PotentialStatesTo(direction) ==
    /\ ret = NoCall
    /\ ret' = [op |-> "potential_states_to", direction |-> direction,
               direction_moves |-> potential_states_to(arr, direction)]
    /\ UNCHANGED <<arr, _value, simulator>>

PotentialStates ==
    /\ ret = NoCall
    /\ ret' = [op |-> "potential_states",
               all_potential_moves |-> potential_states(arr)]
    /\ UNCHANGED <<arr, _value, simulator>>

\* the codec, the move engine and the legality test
Next ==
    \/ BuildArray
    \/ BuildArrayThenValue
    \/ BuildValue
    \/ BuildValueThenArray
    \/ \E direction \in {left, right, up, down} : OnlyMove(direction)
    \/ OnlyMoveAgain
    \/ BoardOnlyMove
    \/ \E direction \in {left, right, up, down} : CanMoveTo(direction)
    \/ PotentialDirections
    \/ CanMove

Spec == Init /\ [][Next]_vars

\* the enumeration of the successor boards
NextStates ==
    \/ \E direction \in {left, right, up, down} : PotentialStatesTo(direction)
    \/ PotentialStates

SpecStates == Init /\ [][NextStates]_vars

(***************************************************************************)
(* The calls of board_print.                                               *)
(***************************************************************************)
\* the 16-bit limbs of the packed boards that are printed: those of the
\* values of test_print (0x03, 0x12345678), of 0xdeadbeef, and 0x9c21
PrintLimbs == {0, 3, 4660, 22136, 39969, 48879, 57005}

\* the line prefixes of test_print
Befores == { <<>>, <<">", ">", ">", " ">> }

\* the blank glyphs: the default one, and a dot
Blanks == { <<"_">>, <<".">> }

InitPrint ==
    /\ ret = NoCall
    /\ simulator = NoSimulator
    /\ arr = initial_array
    /\ _value \in PrintLimbs \X PrintLimbs \X PrintLimbs \X PrintLimbs

BoardPrint(before, numbers, blank) ==
    /\ ret = NoCall
    /\ ret' = [op |-> "board_print", before |-> before, numbers |-> numbers,
               blank |-> blank,
               output_value |-> board_print(_value, before, numbers, blank)]
    /\ UNCHANGED <<arr, _value, simulator>>

NextPrint ==
    \E before \in Befores : \E numbers \in BOOLEAN : \E blank \in Blanks :
        BoardPrint(before, numbers, blank)

SpecPrint == InitPrint /\ [][NextPrint]_vars

(***************************************************************************)
(* The calls that work on arrays in memory.  The caller's array is the     *)
(* only buffer before the call; arr is what it shows, before and after.    *)
(***************************************************************************)
\* the caller's array
TheArr == [base |-> 1, k |-> 0]

InitInPlace ==
    /\ ret = NoCall
    /\ simulator = NoSimulator
    /\ arr \in EditedBoards \cup FullBoards
    /\ _value = initial_value

FillRandom ==
    /\ ret = NoCall
    /\ \E n \in Draws(arr) :
           LET filled == FillRandomIn(<<arr>>, TheArr, n)
           IN  /\ arr' = View(filled.mem, TheArr)
               /\ ret' = [op |-> "_fill_random", before |-> arr,
                          raised |-> filled.raised]
    /\ UNCHANGED <<_value, simulator>>

OnlyMoveCall(direction) ==
    /\ ret = NoCall
    /\ LET moved_arr == OnlyMoveIn(<<arr>>, TheArr, direction)
       IN  /\ arr' = View(moved_arr.mem, TheArr)
           /\ ret' = [op |-> "call _only_move", before |-> arr,
                      direction |-> direction,
                      result |-> View(moved_arr.mem, moved_arr.a),
                      shares |-> moved_arr.a.base = TheArr.base]
    /\ UNCHANGED <<_value, simulator>>

MoveRandomCall(direction) ==
    /\ ret = NoCall
    /\ \E n \in Draws(_only_move(arr, direction)) :
           LET moved_arr == MoveRandomIn(<<arr>>, TheArr, direction, n)
           IN  /\ arr' = View(moved_arr.mem, TheArr)
               /\ ret' = [op |-> "call move_random", before |-> arr,
                          direction |-> direction,
                          raised |-> moved_arr.raised,
                          result |-> View(moved_arr.mem, moved_arr.a),
                          shares |-> moved_arr.a.base = TheArr.base]
    /\ UNCHANGED <<_value, simulator>>

\* can_move_to only reads arr (a, b, c, d = row): the memory is as before
CanMoveToCall(direction) ==
    /\ ret = NoCall
    /\ arr' = View(<<arr>>, TheArr)
    /\ ret' = [op |-> "call can_move_to", before |-> arr,
               direction |-> direction, result |-> can_move_to(arr, direction)]
    /\ UNCHANGED <<_value, simulator>>

\* potential_directions only calls can_move_to
PotentialDirectionsCall ==
    /\ ret = NoCall
    /\ arr' = View(<<arr>>, TheArr)
    /\ ret' = [op |-> "call potential_directions", before |-> arr,
               result |-> potential_directions(arr)]
    /\ UNCHANGED <<_value, simulator>>

PotentialStatesCall ==
    /\ ret = NoCall
    /\ arr' = View(PotentialStatesIn(<<arr>>, TheArr), TheArr)
    /\ ret' = [op |-> "call potential_states", before |-> arr,
               result |-> potential_states(arr)]
    /\ UNCHANGED <<_value, simulator>>

NextInPlace ==
    \/ FillRandom
    \/ \E direction \in {left, right, up, down} : OnlyMoveCall(direction)
    \/ \E direction \in {left, right, up, down} : MoveRandomCall(direction)
    \/ \E direction \in {left, right, up, down} : CanMoveToCall(direction)
    \/ PotentialDirectionsCall
    \/ PotentialStatesCall

SpecInPlace == InitInPlace /\ [][NextInPlace]_vars

(***************************************************************************)
(* The simulator (class GameStrategy and its sample strategies).           *)
(***************************************************************************)
\* a run is followed for this many movements
MaxMoves == 1

\* the sample strategies that pick among potential_directions
Strategies == {"RandomGameStrategy", "FirstDirectionGameStrategy"}

\* arr.max()
ArrMax(a) == CHOOSE x \in {a[i][j] : i \in 1 .. 4, j \in 1 .. 4} :
                 \A i \in 1 .. 4 : \A j \in 1 .. 4 : a[i][j] <= x

\* GameStrategy.__init__ up to the call of start(); klass is the subclass,
\* dont_start the parameter, and last is history: the direction and the
\* moved grid of the last passage through the loop
Constructed(klass) ==
    [pc |-> "__init__", klass |-> klass, dont_start |-> FALSE,
     current_arr |-> initial_array, max_value |-> 0, movements |-> 0,
     last |-> [direction |-> left, moved_arr |-> initial_array]]

\* the grid of test_can_move with every tile doubled
LockedBoard == << <<3, 5, 7, 9>>, <<9, 7, 5, 3>>, <<3, 5, 7, 9>>, <<9, 7, 5, 3>> >>

\* the locked grid with one cell emptied: a game close to its end
EndBoards == { [LockedBoard EXCEPT ![i][j] = 0] : i \in 1 .. 4, j \in 1 .. 4 }

\* a simulator made with dont_start whose current_arr holds a game in progress
InProgress(klass, a) ==
    [Constructed(klass) EXCEPT !.pc = "started", !.dont_start = TRUE,
                               !.current_arr = a]

\* a new FirstDirectionGameStrategy, or a simulator of either strategy with
\* a game in progress: a grid of the tests or a game close to its end
InitGame ==
    /\ ret = NoCall
    /\ arr = initial_array
    /\ _value = initial_value
    /\ \/ simulator = Constructed("FirstDirectionGameStrategy")
       \/ \E klass \in Strategies :
              \E a \in TestBoards \cup EndBoards : simulator = InProgress(klass, a)

\* the games close to their end
InitEndgame ==
    /\ ret = NoCall
    /\ arr = initial_array
    /\ _value = initial_value
    /\ \E klass \in Strategies :
           \E a \in EndBoards : simulator = InProgress(klass, a)

\* start(): initialize_board_random(self.current_arr), two _fill_random on
\* the same array
Start ==
    /\ simulator.pc = "__init__"
    /\ \E n1 \in Draws(simulator.current_arr) :
       \E n2 \in Draws(_fill_random(simulator.current_arr, n1).arr) :
           simulator' =
               [simulator EXCEPT
                   !.pc = IF \/ _fill_random(simulator.current_arr, n1).raised
                             \/ _fill_random(_fill_random(simulator.current_arr, n1).arr, n2).raised
                          THEN "raised" ELSE "started",
                   !.current_arr =
                       _fill_random(_fill_random(simulator.current_arr, n1).arr, n2).arr]
    /\ UNCHANGED <<arr, _value, ret>>

\* run() up to the first test of the loop
RunEnter ==
    /\ simulator.pc = "started"
    /\ simulator' = [simulator EXCEPT !.pc = "while",
                                      !.max_value = ArrMax(simulator.current_arr)]
    /\ UNCHANGED <<arr, _value, ret>>

\* next_direction(): random.choice(self.potential_directions) or
\* self.potential_directions[0]
NextDirections(klass, a) ==
    IF klass = "RandomGameStrategy"
    THEN {potential_directions(a)[n] : n \in 1 .. Len(potential_directions(a))}
    ELSE {potential_directions(a)[1]}

\* one passage through the body of the loop of run(), with move_random as
\* its two calls _only_move and _fill_random; an exception of next_direction
\* or of _fill_random ends the run.  The local value =
\* build_value(self.current_arr) is not used and the measurements and the
\* printing do not act on the game.
RunIteration ==
    /\ simulator.pc = "while"
    /\ can_move(simulator.current_arr) = TRUE
    /\ IF potential_directions(simulator.current_arr) = <<>>
       THEN simulator' = [simulator EXCEPT !.pc = "raised"]
       ELSE \E direction \in NextDirections(simulator.klass, simulator.current_arr) :
            \E moved_arr \in {_only_move(simulator.current_arr, direction)} :
            \E n \in Draws(moved_arr) :
            \E filled \in {_fill_random(moved_arr, n)} :
                simulator' =
                    IF filled.raised
                    THEN [simulator EXCEPT
                             !.pc = "raised",
                             !.last = [direction |-> direction, moved_arr |-> moved_arr]]
                    ELSE [simulator EXCEPT
                             !.current_arr = filled.arr,
                             !.max_value = ArrMax(filled.arr),
                             !.movements = @ + 1,
                             !.last = [direction |-> direction, moved_arr |-> moved_arr]]
    /\ UNCHANGED <<arr, _value, ret>>

\* a passage through the loop of a run that is still followed
RunIterationFollowed ==
    /\ simulator.movements < MaxMoves
    /\ RunIteration

\* the loop of run() ends
RunExit ==
    /\ simulator.pc = "while"
    /\ ~can_move(simulator.current_arr)
    /\ simulator' = [simulator EXCEPT !.pc = "done"]
    /\ UNCHANGED <<arr, _value, ret>>

\* new games and games in progress, followed for MaxMoves movements
NextGame ==
    \/ Start
    \/ RunEnter
    \/ RunIterationFollowed
    \/ RunExit

SpecGame == InitGame /\ [][NextGame]_vars

\* the games close to their end, followed to the end
NextEndgame ==
    \/ RunEnter
    \/ RunIteration
    \/ RunExit

SpecEndgame == InitEndgame /\ [][NextEndgame]_vars /\ WF_vars(NextEndgame)

(***************************************************************************)
(* Properties.                                                             *)
(***************************************************************************)
\* the cells of a grid are exponents 0..15
InNibbles(a) == \A i \in 1 .. 4 : \A j \in 1 .. 4 : a[i][j] \in 0 .. 15

\* nibble i of a packed board, counted from the least significant nibble
Nibble(k, i) ==
    LET limb == k[(i \div 4) + 1]
    IN  CASE i % 4 = 0 -> limb % 16
          [] i % 4 = 1 -> (limb \div 16) % 16
          [] i % 4 = 2 -> (limb \div 256) % 16
          [] i % 4 = 3 -> (limb \div 4096) % 16

\* C1: can_move_to(b, d) is True exactly when _only_move(b, d) differs from b.
C1_LegalityConsistent ==
    ret.op = "can_move_to" =>
        (ret.result <=> (_only_move(arr, ret.direction) # arr))

\* C2: build_value(build_array(k)) = k for every packed board k,
\* build_array(build_value(g)) = g for every grid g of exponents 0..15, and
\* cell i of build_array(k), in row-major order, is nibble i of k.
C2_RoundTrip ==
    /\ ret.op = "build_array;build_value" => ret.value = _value
    /\ ret.op = "build_value;build_array" => InNibbles(arr) /\ ret.arr = arr
    /\ ret.op = "build_array" =>
           \A i \in LINE_POSITIONS : Flat(ret.arr)[i + 1] = Nibble(_value, i)

\* a packed board with its sign bit set has been unpacked and packed again
C2_Witness ==
    /\ ret.op = "build_array;build_value"
    /\ _value[4] >= 32768
    /\ _value[1] # _value[4]
    /\ ret.value = _value

\* a line read backwards
Backwards(line) == <<line[4], line[3], line[2], line[1]>>

\* the row transform of _only_move_left on one line
RowTransform(line) == MoveRow(line).row

\* cell <<i, j>> of the grid that the row transform gives when it is applied
\* to each line of a read towards the edge named by direction and the
\* transformed line is written back in the same reading order
PerLine(a, direction, i, j) ==
    CASE direction = left  -> RowTransform(a[i])[j]
      [] direction = right -> RowTransform(Backwards(a[i]))[5 - j]
      [] direction = up    -> RowTransform(Column(a, j))[i]
      [] direction = down  -> RowTransform(Backwards(Column(a, j)))[5 - i]

\* C3: _only_move equals the row transform applied line by line: Left to
\* each row read left-to-right, Right to each row read right-to-left, Up to
\* each column read top-to-bottom, Down to each column read bottom-to-top,
\* each transformed line written back in its reading order; and the grid of
\* test_only_move moved Down is the grid that test expects.
C3_MoveIsPerLine ==
    ret.op = "_only_move" =>
        /\ \A i \in 1 .. 4 : \A j \in 1 .. 4 :
               ret.moved_arr[i][j] = PerLine(arr, ret.direction, i, j)
        /\ ( /\ arr = << <<0, 0, 0, 0>>, <<1, 1, 2, 3>>, <<0, 0, 1, 1>>, <<1, 1, 1, 1>> >>
             /\ ret.direction = down )
           => ret.moved_arr =
                  << <<0, 0, 0, 0>>, <<0, 0, 0, 0>>, <<0, 0, 2, 3>>, <<2, 2, 2, 2>> >>

\* the grid of test_only_move has been moved Down
C3_Witness ==
    /\ ret.op = "_only_move"
    /\ ret.direction = down
    /\ arr = << <<0, 0, 0, 0>>, <<1, 1, 2, 3>>, <<0, 0, 1, 1>>, <<1, 1, 1, 1>> >>
    /\ ret.moved_arr # arr

\* no zero cell to the left of a non-zero cell
NoGaps(line) == \A j \in 1 .. 3 : line[j] = 0 => line[j + 1] = 0

\* no two equal adjacent non-zero cells
NoEqualNeighbours(line) == \A j \in 1 .. 3 : line[j] = 0 \/ line[j] # line[j + 1]

\* C4 as stated: every row of _only_move_left's result has no interior gap
\* and no two equal adjacent non-zero values.
C4_NoGapsNoEqualNeighbours ==
    (ret.op = "_only_move" /\ ret.direction = left) =>
        \A i \in 1 .. 4 : NoGaps(ret.moved_arr[i]) /\ NoEqualNeighbours(ret.moved_arr[i])

\* C4 amended: every row of _only_move_left's result has no interior gap, and
\* two equal adjacent non-zero values are left only where at least one of the
\* two was produced by a merge of this pass.
C4_NoGapsEqualOnlyByMerge ==
    (ret.op = "_only_move" /\ ret.direction = left) =>
        \A i \in 1 .. 4 :
            /\ NoGaps(ret.moved_arr[i])
            /\ \A j \in 1 .. 3 :
                   (ret.moved_arr[i][j] # 0 /\ ret.moved_arr[i][j] = ret.moved_arr[i][j + 1])
                   => (ret.merged[i][j] = 1 \/ ret.merged[i][j + 1] = 1)

\* a row with a gap has been moved left, and a merge left two equal neighbours
C4_Witness ==
    /\ ret.op = "_only_move"
    /\ ret.direction = left
    /\ \E i \in 1 .. 4 :
           /\ ~NoGaps(arr[i])
           /\ ret.moved_arr[i][1] # 0
           /\ ret.moved_arr[i][1] = ret.moved_arr[i][2]
           /\ ret.merged[i][1] = 1

\* the lines of a grid along which a move in the direction slides the tiles
LinesAlong(a, direction) ==
    IF direction \in {left, right} THEN {a[i] : i \in 1 .. 4}
    ELSE {Column(a, j) : j \in 1 .. 4}

\* C5 as stated: moving twice in a direction gives what moving once gives.
C5_Idempotent ==
    ret.op = "_only_move;_only_move" => ret.moved_again = ret.moved_arr

\* C5 amended: moving twice in a direction gives what moving once gives
\* exactly when the first move left no two equal adjacent non-zero cells in a
\* line along the direction (a second pass merges such a pair).
C5_IdempotentUnlessEqualNeighbours ==
    ret.op = "_only_move;_only_move" =>
        ( ret.moved_again = ret.moved_arr
          <=> \A line \in LinesAlong(ret.moved_arr, ret.direction) : NoEqualNeighbours(line) )

\* a move that changed the grid has been repeated and changed nothing more
C5_Witness ==
    /\ ret.op = "_only_move;_only_move"
    /\ ret.moved_arr # arr
    /\ ret.moved_again = ret.moved_arr
    /\ \E i \in 1 .. 4 : \E j \in 1 .. 4 : ret.moved_arr[i][j] > arr[i][j] /\ arr[i][j] # 0

\* C6: every cell of _only_move(g, d) is again in 0..15, so the moved grid
\* packs with build_value and unpacks to itself (no cell spills into the
\* neighbouring nibble).
C6_MovedStaysInNibbles ==
    ret.op = "Board._only_move" =>
        (InNibbles(arr) => (InNibbles(ret.moved_arr) /\ ret.arr = ret.moved_arr))

\* the number of the cells of a line that hold e
Count(line, e) == Cardinality({j \in 1 .. 4 : line[j] = e})

\* the number of the cells of a line that hold e and carry the mark m
CountMarked(line, marks, e, m) ==
    Cardinality({j \in 1 .. 4 : line[j] = e /\ marks[j] = m})

\* 2^e
Pow2(e) ==
    CASE e = 0 -> 1 [] e = 1 -> 2 [] e = 2 -> 4 [] e = 3 -> 8 [] e = 4 -> 16
      [] e = 5 -> 32 [] e = 6 -> 64 [] e = 7 -> 128 [] e = 8 -> 256
      [] e = 9 -> 512 [] e = 10 -> 1024 [] e = 11 -> 2048 [] e = 12 -> 4096
      [] e = 13 -> 8192 [] e = 14 -> 16384 [] e = 15 -> 32768 [] e = 16 -> 65536

\* the displayed value of a cell: nothing for an empty cell, 2^e otherwise
Displayed(e) == IF e = 0 THEN 0 ELSE Pow2(e)

\* the sum of the displayed values of a line
LineSum(line) ==
    Displayed(line[1]) + Displayed(line[2]) + Displayed(line[3]) + Displayed(line[4])

\* the lines of a grid along a direction, by their index
LineAlong(a, direction, n) ==
    IF direction \in {left, right} THEN a[n] ELSE Column(a, n)

\* C7: a move changes the multiset of the non-zero exponents of a line only
\* through merges, each replacing two cells of exponent e by one of e + 1:
\* the non-zero cells drop by the number of merges, the sum of the displayed
\* values is unchanged, and without a merge the multiset is unchanged.
C7_MassConserved ==
    ret.op = "_only_move" =>
        \A n \in 1 .. 4 :
            LET before == LineAlong(arr, ret.direction, n)
                after  == LineAlong(ret.moved_arr, ret.direction, n)
                marks  == LineAlong(ret.merged, ret.direction, n)
                merges == Count(marks, 1)
            IN  /\ \A e \in 1 .. 16 :
                       Count(before, e) = CountMarked(after, marks, e, 0)
                                          + 2 * CountMarked(after, marks, e + 1, 1)
                /\ \A j \in 1 .. 4 : marks[j] = 1 => after[j] >= 2
                /\ (4 - Count(after, 0)) = (4 - Count(before, 0)) - merges
                /\ LineSum(after) = LineSum(before)
                /\ merges = 0 => \A e \in 1 .. 16 : Count(after, e) = Count(before, e)

\* a line of four tiles has been merged twice by one move
C7_Witness ==
    /\ ret.op = "_only_move"
    /\ \E n \in 1 .. 4 :
           /\ Count(LineAlong(arr, ret.direction, n), 0) = 0
           /\ Count(LineAlong(ret.merged, ret.direction, n), 1) = 2
           /\ Count(LineAlong(ret.moved_arr, ret.direction, n), 0) = 2

\* the 16-bit limb that holds a row of exponents 0..15, one nibble a cell,
\* the first cell in the least significant nibble
PackedRow(row) == row[1] + 16 * row[2] + 256 * row[3] + 4096 * row[4]

\* the packed key of a grid of exponents 0..15
PackedKey(a) == <<PackedRow(a[1]), PackedRow(a[2]), PackedRow(a[3]), PackedRow(a[4])>>

\* the empty cells of a grid
EmptyCells(a) == {pos \in (1 .. 4) \X (1 .. 4) : a[pos[1]][pos[2]] = 0}

\* the grid a with the cell pos set to e
WithCell(a, pos, e) ==
    [i \in 1 .. 4 |-> [j \in 1 .. 4 |-> IF <<i, j>> = pos THEN e ELSE a[i][j]]]

\* the exponent e in {1, 2} whose probability chances is, as an exact
\* rational: 0.9 / k for 1 and 0.1 / k for 2; 0 when it is neither
ExponentOfChance(chances, k) ==
    IF chances.num * 10 * k = 9 * chances.den THEN 1
    ELSE IF chances.num * 10 * k = 1 * chances.den THEN 2
    ELSE 0

\* C8: when m = _only_move(g, d) differs from g, has all its exponents in
\* 0..15 and has k empty cells, potential_states_to(g, d) has exactly 2k
\* entries: for each empty cell p of m and each e in {1, 2} the packed key of
\* m with p set to e, with probability 0.9/k for e = 1 and 0.1/k for e = 2,
\* and no other key.
C8_TwoEntriesPerEmptyCell ==
    ret.op = "potential_states_to" =>
        LET m == _only_move(arr, ret.direction)
            k == Cardinality(EmptyCells(m))
            items == ret.direction_moves.items
        IN  (m # arr /\ InNibbles(m)) =>
                /\ ~ret.direction_moves.is_none
                /\ Cardinality(items) = 2 * k
                /\ Cardinality({it[1] : it \in items}) = 2 * k
                /\ {<<it[1], ExponentOfChance(it[2], k)>> : it \in items}
                       = {<<PackedKey(WithCell(m, pe[1], pe[2])), pe[2]>> :
                              pe \in EmptyCells(m) \X {1, 2}}

\* a full grid has been moved with one merge, which leaves one empty cell
\* and two successor boards, of probabilities 0.9 and 0.1
C8_Witness ==
    /\ ret.op = "potential_states_to"
    /\ EmptyCells(arr) = {}
    /\ InNibbles(_only_move(arr, ret.direction))
    /\ Cardinality(EmptyCells(_only_move(arr, ret.direction))) = 1
    /\ ~ret.direction_moves.is_none
    /\ Cardinality(ret.direction_moves.items) = 2
    /\ \E it \in ret.direction_moves.items : it[2].num * 10 = 9 * it[2].den
    /\ \E it \in ret.direction_moves.items : it[2].num * 10 = 1 * it[2].den

\* the probabilities of a dict of successor boards sum to exactly 1: each is
\* 9 or 1 over one common denominator, which the numerators add up to
SumsToOne(items) ==
    /\ items # {}
    /\ \A it \in items : it[2].num \in {1, 9}
    /\ \E den \in {it[2].den : it \in items} :
           /\ \A it \in items : it[2].den = den
           /\ 9 * Cardinality({it \in items : it[2].num = 9})
                + Cardinality({it \in items : it[2].num = 1}) = den

\* C9: when can_move_to(b, d) is True, potential_states_to(b, d) returns a
\* mapping whose probabilities sum to exactly 1; storing the outcomes under
\* their packed key by plain assignment loses no probability.
C9_ProbabilitiesSumToOne ==
    (ret.op = "potential_states_to" /\ can_move_to(arr, ret.direction)) =>
        (~ret.direction_moves.is_none /\ SumsToOne(ret.direction_moves.items))

\* C10: potential_states(b) has an entry for the direction d exactly when d
\* is a legal direction of b as potential_directions(b) reports it, which is
\* when can_move_to(b, d) is True.
C10_EntriesAreLegalDirections ==
    ret.op = "potential_states" =>
        \A d \in {left, right, up, down} :
            /\ (\E entry \in ret.all_potential_moves : entry[1] = d)
                   <=> (\E n \in 1 .. Len(potential_directions(arr)) :
                            potential_directions(arr)[n] = d)
            /\ (\E entry \in ret.all_potential_moves : entry[1] = d)
                   <=> can_move_to(arr, d)

\* no cell of the grid is empty
Full(a) == \A i \in 1 .. 4 : \A j \in 1 .. 4 : a[i][j] # 0

\* no two horizontally or vertically adjacent cells of the grid are equal
NoAdjacentEqual(a) ==
    /\ \A i \in 1 .. 4 : \A j \in 1 .. 3 : a[i][j] # a[i][j + 1]
    /\ \A i \in 1 .. 3 : \A j \in 1 .. 4 : a[i][j] # a[i + 1][j]

\* C11: on a fully populated grid in which no two horizontally or vertically
\* adjacent cells are equal, can_move_to is False for all four directions,
\* potential_directions is empty and can_move is False.
C11_GameOverHasNoDirection ==
    (Full(arr) /\ NoAdjacentEqual(arr)) =>
        /\ ret.op = "can_move_to" => ~ret.result
        /\ ret.op = "potential_directions" => ret.directions = <<>>
        /\ ret.op = "can_move" => ~ret.result

\* can_move has been asked on a full grid without equal neighbours that is
\* not one of the grids of the tests, and has answered False
C11_Witness ==
    /\ Full(arr) /\ NoAdjacentEqual(arr)
    /\ arr \notin TestBoards
    /\ ret.op = "can_move"
    /\ ~ret.result

\* the cells in which two grids differ
Differences(a, b) == {pos \in (1 .. 4) \X (1 .. 4) : a[pos[1]][pos[2]] # b[pos[1]][pos[2]]}

\* b is a with exactly one empty cell set to the exponent 1 or 2
OneSpawn(a, b) ==
    /\ Cardinality(Differences(a, b)) = 1
    /\ \A pos \in Differences(a, b) :
           a[pos[1]][pos[2]] = 0 /\ b[pos[1]][pos[2]] \in {1, 2}

\* C12: _fill_random(arr) raises exactly when arr has no empty cell, and
\* then leaves arr as it was; otherwise it does not raise, and it is neither
\* a silent no-op nor an overwrite of a tile: one empty cell gets 1 or 2.
C12_FillRandomRaisesIffFull ==
    ret.op = "_fill_random" =>
        /\ ret.raised <=> EmptyCells(ret.before) = {}
        /\ ret.raised => arr = ret.before
        /\ ~ret.raised => OneSpawn(ret.before, arr)

\* _fill_random has raised on a full grid
C12_Witness ==
    /\ ret.op = "_fill_random"
    /\ ret.raised
    /\ Full(arr)

\* the calls of the moves and of the queries
FrameCalls ==
    { "call _only_move", "call move_random", "call can_move_to",
      "call potential_directions", "call potential_states" }

\* C14: _only_move, move_random, can_move_to, potential_directions and
\* potential_states leave the grid they are given as it was, and the moved
\* or spawned grid that is returned is another array in memory.
C14_InputUnmodified ==
    ret.op \in FrameCalls =>
        /\ arr = ret.before
        /\ ret.op \in {"call _only_move", "call move_random"} => ~ret.shares

\* move_random has moved a grid upwards, spawned a tile in the moved grid
\* and left the grid it was given alone
C14_Witness ==
    /\ ret.op = "call move_random"
    /\ ret.direction = up
    /\ ~ret.raised
    /\ ret.result # arr
    /\ OneSpawn(_only_move(arr, up), ret.result)
    /\ _only_move(arr, up) # arr

\* C13: initialize_board_random applied to the all-empty grid yields a grid
\* with exactly two non-empty cells, at two distinct positions, each holding
\* the exponent 1 or 2, and 14 empty cells; it never raises.
C13_NewGameHasTwoTiles ==
    (~simulator.dont_start /\ simulator.pc \in {"started", "raised"}
        /\ simulator.movements = 0) =>
        /\ simulator.pc = "started"
        /\ Cardinality(EmptyCells(simulator.current_arr)) = 14
        /\ \E p \in (1 .. 4) \X (1 .. 4) : \E q \in (1 .. 4) \X (1 .. 4) :
               /\ p # q
               /\ simulator.current_arr[p[1]][p[2]] \in {1, 2}
               /\ simulator.current_arr[q[1]][q[2]] \in {1, 2}
               /\ Differences(initial_array, simulator.current_arr) = {p, q}

\* a new game whose two tiles are a 4 and a 2 side by side
C13_Witness ==
    /\ ~simulator.dont_start
    /\ simulator.pc = "started"
    /\ simulator.current_arr[2][2] = 2
    /\ simulator.current_arr[2][3] = 1

\* C16: when can_move(arr) is False on a grid of exponents 0..15, so that
\* the loop of run() ends, no direction would change the grid.
C16_GameOverIsReal ==
    (ret.op = "can_move" /\ InNibbles(arr) /\ ~ret.result) =>
        \A d \in {left, right, up, down} : _only_move(arr, d) = arr

\* C17: in a run with a strategy that picks among potential_directions,
\* whenever the loop condition holds potential_directions is not empty, and
\* the passage through the loop is a move that changes the grid, leaves an
\* empty cell, and is followed by a spawn that does not raise: the new
\* current_arr is the moved grid with one empty cell set to 1 or 2.
C17_IterationMovesAndSpawns ==
    [][ (simulator.pc = "while" /\ can_move(simulator.current_arr)) =>
            /\ potential_directions(simulator.current_arr) # <<>>
            /\ simulator' # simulator =>
                   /\ simulator'.pc = "while"
                   /\ simulator'.last.direction
                          \in {potential_directions(simulator.current_arr)[n] :
                                 n \in 1 .. Len(potential_directions(simulator.current_arr))}
                   /\ simulator'.last.moved_arr
                          = _only_move(simulator.current_arr, simulator'.last.direction)
                   /\ simulator'.last.moved_arr # simulator.current_arr
                   /\ EmptyCells(simulator'.last.moved_arr) # {}
                   /\ OneSpawn(simulator'.last.moved_arr, simulator'.current_arr)
                   /\ simulator'.movements = simulator.movements + 1 ]_vars

\* a full grid has been moved, which merged tiles, and the spawn has filled
\* the only empty cell of the moved grid
C17_Witness ==
    /\ simulator.pc = "while"
    /\ simulator.movements = 1
    /\ simulator.klass = "RandomGameStrategy"
    /\ Cardinality(EmptyCells(simulator.last.moved_arr)) = 1
    /\ Full(simulator.current_arr)

\* the sum of the displayed values of a grid
GridSum(a) == LineSum(a[1]) + LineSum(a[2]) + LineSum(a[3]) + LineSum(a[4])

PowerLabel(e) ==
    << <<"2">>, <<"4">>, <<"8">>, <<"1", "6">>, <<"3", "2">>, <<"6", "4">>,
       <<"1", "2", "8">>, <<"2", "5", "6">>, <<"5", "1", "2">>,
       <<"1", "0", "2", "4">>, <<"2", "0", "4", "8">>, <<"4", "0", "9", "6">>,
       <<"8", "1", "9", "2">>, <<"1", "6", "3", "8", "4">>,
       <<"3", "2", "7", "6", "8">> >>[e]

\* the decimal of the exponent e in 0..15, written out
ExponentLabel(e) ==
    << <<"0">>, <<"1">>, <<"2">>, <<"3">>, <<"4">>, <<"5">>, <<"6">>, <<"7">>,
       <<"8">>, <<"9">>, <<"1", "0">>, <<"1", "1">>, <<"1", "2">>, <<"1", "3">>,
       <<"1", "4">>, <<"1", "5">> >>[e + 1]

\* the label of a cell of exponent e in the last call of board_print
Label(e) ==
    IF ret.numbers THEN ExponentLabel(e)
    ELSE IF e = 0 THEN ret.blank
    ELSE PowerLabel(e)

\* the exponent of the cell j of the row i of the board that was printed
Printed(i, j) == Nibble(_value, (4 * (i - 1)) + (j - 1))

\* the width that the cell j of the row i takes
CellWidth(i, j) ==
    (IF Len(Label(Printed(i, j))) > 4 THEN Len(Label(Printed(i, j))) ELSE 4) + 1

\* the position, in the text, of the last character before the cell j of
\* the row i, the newline of the row i being its cell 5
Before(i, j) ==
    LET RowWidth(r) == Len(ret.before) + CellWidth(r, 1) + CellWidth(r, 2)
                           + CellWidth(r, 3) + CellWidth(r, 4) + 1
        CellsWidth(c) == IF c = 0 THEN 0
                         ELSE IF c = 1 THEN CellWidth(i, 1)
                         ELSE IF c = 2 THEN CellWidth(i, 1) + CellWidth(i, 2)
                         ELSE IF c = 3 THEN CellWidth(i, 1) + CellWidth(i, 2) + CellWidth(i, 3)
                         ELSE CellWidth(i, 1) + CellWidth(i, 2) + CellWidth(i, 3) + CellWidth(i, 4)
        RowsWidth == IF i = 1 THEN 0
                     ELSE IF i = 2 THEN RowWidth(1)
                     ELSE IF i = 3 THEN RowWidth(1) + RowWidth(2)
                     ELSE IF i = 4 THEN RowWidth(1) + RowWidth(2) + RowWidth(3)
                     ELSE RowWidth(1) + RowWidth(2) + RowWidth(3) + RowWidth(4)
    IN  RowsWidth + Len(ret.before) + CellsWidth(j - 1)

\* the positions of the newlines of a text
Newlines(text) == {p \in 1 .. Len(text) : text[p] = "\n"}

\* C15 as it is stated: board_print returns 4 lines, each made of the
\* prefix, four cells of exactly 5 characters and a newline, so that every
\* line has the length len(prefix) + 20.
C15_EveryCellTakesFive ==
    ret.op = "board_print" =>
        /\ Len(ret.output_value) = 4 * (Len(ret.before) + 20 + 1)
        /\ Newlines(ret.output_value)
               = {i * (Len(ret.before) + 20 + 1) : i \in 1 .. 4}

\* C15, amended: board_print returns 4 lines, each made of the prefix, four
\* cells and a newline; a cell is its label right-justified in a field of
\* width 4 and one space, so it takes 5 characters when the label has at
\* most 4 and one more than the label otherwise (16384 and 32768): a line
\* has the length len(prefix) + 20 plus the number of its cells of exponent
\* 14 or 15 when numbers is not set.
C15_CellsRightJustified ==
    ret.op = "board_print" =>
        /\ Len(ret.output_value) = Before(5, 1) - Len(ret.before)
        /\ Newlines(ret.output_value) = {Before(i, 5) + 1 : i \in 1 .. 4}
        /\ \A i \in 1 .. 4 :
               /\ SubSeq(ret.output_value, Before(i, 1) - Len(ret.before) + 1, Before(i, 1))
                      = ret.before
               /\ Before(i, 5) - Before(i, 1)
                      = 20 + Cardinality({j \in 1 .. 4 : ~ret.numbers /\ Printed(i, j) \in {14, 15}})
               /\ \A j \in 1 .. 4 :
                      LET label == Label(Printed(i, j))
                          last  == Before(i, j) + CellWidth(i, j)
                      IN  /\ ret.output_value[last] = " "
                          /\ SubSeq(ret.output_value, last - Len(label), last - 1) = label
                          /\ \A p \in (Before(i, j) + 1) .. (last - Len(label) - 1) :
                                 ret.output_value[p] = " "

\* a board with an 8 tile in its first row and the tiles 32768 and 2048 in
\* its last row has been printed with the prefix of the tests
C15_Witness ==
    /\ ret.op = "board_print"
    /\ ~ret.numbers
    /\ ret.before # <<>>
    /\ Printed(1, 1) = 3
    /\ Printed(4, 1) = 15
    /\ Printed(4, 4) = 11
    /\ Before(4, 5) - Before(4, 1) = 23

=============================================================================
